---- MODULE Spec2Model ----
(***************************************************************************)
(* A model of passgen: the charset-specification parser                    *)
(* (parse_charset_spec, src/src/lib.rs), the password sampler (generate,   *)
(* src/src/lib.rs) and the command-line caller (run, src/src/main.rs).     *)
(*                                                                         *)
(* Text is modelled as sequences of byte values (a Rust String is UTF-8,   *)
(* so bytes 0x80..0xFF occur in it), a BitArray<[u64; 2], Lsb0> as the set *)
(* of its set bit indices (all below 128), and a BigUint as a normalised   *)
(* little-endian sequence of base-256 limbs.                               *)
(***************************************************************************)
EXTENDS Integers, Sequences, FiniteSets, TLC

VARIABLES
    pc,             \* control position of the program
    args,           \* run: env::args(), the program name first
    argi,           \* run: index of the argument iterator's next item (1-based)
    charset_spec,   \* run/generate: Option<&String>, <<>> is None, <<s>> is Some(s)
    password_len,   \* run/generate: usize
    num_passwords,  \* run/generate: usize
    spec_bytes,     \* parse_charset_spec: the bytes of its argument
    pos,            \* parse_charset_spec: index of the iterator's next byte (1-based)
    invert,         \* parse_charset_spec: bytes[0] == CARET
    state,          \* parse_charset_spec: the CharsetParserState
    result,         \* parse_charset_spec: the working bit array
    parse_ret,      \* parse_charset_spec: what it returned (or how it ended)
    charset,        \* generate: Vec<u8>
    num_bytes,      \* generate: length of the entropy buffer
    buffer,         \* generate: the entropy buffer as the provider filled it
    value,          \* generate: the BigUint, little-endian limbs
    password_bytes, \* generate: the password being built
    passwords,      \* generate: the passwords built so far
    steps,          \* generate: number of div_mod_floor steps performed
    gen_ret,        \* generate: what it returned
    run_ret,        \* run: what it returned
    printed         \* run: lines written to standard output

vars == <<pc, args, argi, charset_spec, password_len, num_passwords, spec_bytes, pos,
          invert, state, result, parse_ret, charset, num_bytes, buffer, value,
          password_bytes, passwords, steps, gen_ret, run_ret, printed>>

parseVars == <<spec_bytes, pos, invert, state, result, parse_ret>>
genVars   == <<charset, num_bytes, buffer, value, password_bytes, passwords, steps, gen_ret>>
runVars   == <<args, argi, run_ret, printed>>
callVars  == <<charset_spec, password_len, num_passwords>>

----------------------------------------------------------------------------
(* Bounds of the model. *)

\* longest specification string explored by SpecParse
MaxSpecLen == 4
\* longest specification string explored by SpecGen
MaxGenSpecLen == 2
\* largest password_len explored by SpecGen
MaxPasswordLen == 2
\* largest num_passwords explored by SpecGen
MaxNumPasswords == 2
\* largest number of command-line arguments explored by Spec
MaxArgs == 4
\* most passwords the outer loop of generate is followed through
MaxPushes == 4
\* longest password and largest batch explored by SpecSize
MaxSizeLen == 7
MaxSizeNum == 1

----------------------------------------------------------------------------
(* Bytes and bit arrays. *)

HYPHEN    == 45
BACKSLASH == 92
CARET     == 94

\* The values of a u8.
Byte == 0 .. 255

\* [u64; 2], each word written as its four 16-bit quarters, least significant
\* first: 0xffff_ffff_0000_0000 and 0x7fff_ffff_ffff_ffff.
TYPEABLE == << <<0, 0, 65535, 65535>>, <<65535, 65535, 65535, 32767>> >>

RECURSIVE Pow2(_)
Pow2(n) == IF n = 0 THEN 1 ELSE 2 * Pow2(n - 1)

\* Number of bits of a BitArray<[u64; 2], _>.
BitArrayLen(words) == 64 * Len(words)

\* Bit i of the words in Lsb0 order: index 0 is the least significant bit of
\* word 0.
WordBit(words, i) ==
    LET w == words[(i \div 64) + 1]
        q == w[((i % 64) \div 16) + 1]
    IN  (q \div Pow2(i % 16)) % 2 = 1

\* BitArray::<_, Lsb0>::from(words), as the set of the indices of its set bits.
BitArrayFrom(words) == { i \in 0 .. (BitArrayLen(words) - 1) : WordBit(words, i) }

\* BitSlice::get: None beyond the end of the array, else the bit.
BitGet(bits, i) ==
    IF i >= BitArrayLen(TYPEABLE) THEN "None"
    ELSE IF i \in bits THEN "SomeTrue" ELSE "SomeFalse"

\* BitSlice::set(i, true).
BitSet(bits, i) == bits \cup {i}

\* A not_any that never reports an empty array.
NotAnyNever(bits) == FALSE

\* BitSlice::not_any.
NotAny(bits) == bits = {}

RECURSIVE IterOnesIn(_, _, _)
\* The set indices among lo..hi in increasing order (the lower half of the
\* index range first, then the upper half).
IterOnesIn(bits, lo, hi) ==
    IF lo = hi THEN (IF lo \in bits THEN <<lo>> ELSE <<>>)
    ELSE LET mid == (lo + hi) \div 2
         IN  IterOnesIn(bits, lo, mid) \o IterOnesIn(bits, mid + 1, hi)

\* The set indices collected from the highest down.
IterOnesDescending(bits) ==
    LET up == IterOnesIn(bits, 0, BitArrayLen(TYPEABLE) - 1)
    IN  [i \in 1 .. Len(up) |-> up[Len(up) + 1 - i]]

\* bits.iter_ones().map(|i| i as u8).collect(): the set indices, scanned upward.
IterOnes(bits) == IterOnesIn(bits, 0, BitArrayLen(TYPEABLE) - 1)

\* The typeable bit array of parse_charset_spec and of generate's default.
Typeable == BitArrayFrom(TYPEABLE)

----------------------------------------------------------------------------
(* parse_charset_spec. *)

Start          == [tag |-> "Start", arg |-> 0]
Char(b)        == [tag |-> "Char", arg |-> b]
Escape         == [tag |-> "Escape", arg |-> 0]
Range(b)       == [tag |-> "Range", arg |-> b]
RangeEscape(b) == [tag |-> "RangeEscape", arg |-> b]

\* How a call ended: not yet, Ok(charset), Err(message) or a panic.
NoRet      == [tag |-> "None", msg |-> "", byte |-> 0, val |-> <<>>]
Ok(v)      == [tag |-> "Ok", msg |-> "", byte |-> 0, val |-> v]
Err(m, b)  == [tag |-> "Err", msg |-> m, byte |-> b, val |-> <<>>]
Panic(m)   == [tag |-> "Panic", msg |-> m, byte |-> 0, val |-> <<>>]

ErrEmptySpec     == Err("empty charset specification", 0)
ErrUntypeable    == Err("found untypeable or non-ASCII character", 0)
ErrEscapeHyphen  == Err("hyphens must be escaped", 0)
ErrInvalidEscape(byte) == Err("invalid escape sequence", byte)
ErrUntermEscape  == Err("unterminated escape sequence", 0)
ErrUntermRange   == Err("unterminated character range", 0)
ErrEmptyCharset  == Err("character set is empty", 0)
PanicUnwrapNone  == Panic("called Option::unwrap on a None value")

\* The range loop with an exclusive upper end: (start + 1)..end.
MarkRangeExclusive(bits, start, end) == bits \cup ((start + 1) .. (end - 1))

\* A range that runs one byte past its end.
MarkRangeOverrun(bits, start, end) == bits \cup ((start + 1) .. (end + 1))

\* A range that is read in either order of its endpoints.
MarkRangeEitherOrder(bits, start, end) ==
    bits \cup ((start + 1) .. end) \cup (end .. (start - 1))

\* for byte in (start + 1)..=end { result.set(byte as usize, true); }
MarkRange(bits, start, end) == bits \cup ((start + 1) .. end)

\* The locals of the parser after the statements before the loop.
ParseEntry(s) ==
    IF Len(s) = 0
    THEN [invert |-> FALSE, pos |-> 1, state |-> Start, result |-> {},
          ret |-> ErrEmptySpec]
    ELSE LET inv == s[1] = CARET
         IN  [invert |-> inv, pos |-> IF inv THEN 2 ELSE 1, state |-> Start,
              result |-> {}, ret |-> NoRet]

\* The typeable test at the head of the loop body: typeable.get(byte).unwrap().
TypeableCheck(byte) ==
    LET g == BitGet(Typeable, byte)
    IN  IF g = "None" THEN PanicUnwrapNone
        ELSE IF g = "SomeFalse" THEN ErrUntypeable
        ELSE NoRet

\* The match (state, byte) of the loop body, on a typeable byte.
Transition(st, bits, byte) ==
    CASE st.tag = "Start" /\ byte = HYPHEN ->
            [state |-> st, result |-> bits, ret |-> ErrEscapeHyphen]
      [] st.tag = "Start" /\ byte = BACKSLASH ->
            [state |-> Escape, result |-> bits, ret |-> NoRet]
      [] st.tag = "Start" /\ byte \notin {HYPHEN, BACKSLASH} ->
            [state |-> Char(byte), result |-> BitSet(bits, byte), ret |-> NoRet]
      [] st.tag = "Char" /\ byte = HYPHEN ->
            [state |-> Range(st.arg), result |-> bits, ret |-> NoRet]
      [] st.tag = "Char" /\ byte = BACKSLASH ->
            [state |-> Escape, result |-> bits, ret |-> NoRet]
      [] st.tag = "Char" /\ byte \notin {HYPHEN, BACKSLASH} ->
            [state |-> st, result |-> BitSet(bits, byte), ret |-> NoRet]
      [] st.tag = "Escape" ->
            IF byte /= HYPHEN /\ byte /= BACKSLASH
            THEN [state |-> st, result |-> bits, ret |-> ErrInvalidEscape(byte)]
            ELSE [state |-> Char(byte), result |-> BitSet(bits, byte), ret |-> NoRet]
      [] st.tag = "Range" /\ byte = HYPHEN ->
            [state |-> st, result |-> bits, ret |-> ErrEscapeHyphen]
      [] st.tag = "Range" /\ byte = BACKSLASH ->
            [state |-> RangeEscape(st.arg), result |-> bits, ret |-> NoRet]
      [] st.tag = "Range" /\ byte \notin {HYPHEN, BACKSLASH} ->
            [state |-> Start, result |-> MarkRange(bits, st.arg, byte), ret |-> NoRet]
      [] st.tag = "RangeEscape" ->
            IF byte /= HYPHEN /\ byte /= BACKSLASH
            THEN [state |-> st, result |-> bits, ret |-> ErrInvalidEscape(byte)]
            ELSE [state |-> Start, result |-> MarkRange(bits, st.arg, byte), ret |-> NoRet]

\* One iteration of the loop: the typeable test, then the match.
ParseStep(st, bits, byte) ==
    LET t == TypeableCheck(byte)
    IN  IF t.tag /= "None" THEN [state |-> st, result |-> bits, ret |-> t]
        ELSE Transition(st, bits, byte)

\* An inversion over the whole bit array: result = !tmp.
InvertAllBits(bits) == (0 .. (BitArrayLen(TYPEABLE) - 1)) \ bits

\* if invert { let tmp = result; result = typeable; result &= !tmp; }
InvertResult(bits) == Typeable \ bits

\* A final match that accepts an unterminated range.
ParseFinishLenient(st, inv, bits) ==
    CASE st.tag \in {"Escape", "RangeEscape"} ->
            [result |-> bits, ret |-> ErrUntermEscape]
      [] OTHER ->
            LET final == IF inv THEN InvertResult(bits) ELSE bits
            IN  [result |-> final,
                 ret |-> IF NotAny(final) THEN ErrEmptyCharset
                         ELSE Ok(IterOnes(final))]

\* A final match that tests for the empty set before it inverts.
ParseFinishEmptyFirst(st, inv, bits) ==
    CASE st.tag \in {"Escape", "RangeEscape"} ->
            [result |-> bits, ret |-> ErrUntermEscape]
      [] st.tag = "Range" ->
            [result |-> bits, ret |-> ErrUntermRange]
      [] OTHER ->
            LET final == IF inv THEN InvertResult(bits) ELSE bits
            IN  [result |-> final,
                 ret |-> IF NotAny(bits) THEN ErrEmptyCharset
                         ELSE Ok(IterOnes(final))]

\* The match on the state after the loop.
ParseFinish(st, inv, bits) ==
    CASE st.tag \in {"Escape", "RangeEscape"} ->
            [result |-> bits, ret |-> ErrUntermEscape]
      [] st.tag = "Range" ->
            [result |-> bits, ret |-> ErrUntermRange]
      [] OTHER ->
            LET final == IF inv THEN InvertResult(bits) ELSE bits
            IN  [result |-> final,
                 ret |-> IF NotAny(final) THEN ErrEmptyCharset
                         ELSE Ok(IterOnes(final))]

RECURSIVE ParseLoop(_, _, _, _)
\* The loop over the bytes from index i on, to its end or its first return.
ParseLoop(s, i, st, bits) ==
    IF i > Len(s) THEN [state |-> st, result |-> bits, ret |-> NoRet]
    ELSE LET r == ParseStep(st, bits, s[i])
         IN  IF r.ret.tag /= "None" THEN r
             ELSE ParseLoop(s, i + 1, r.state, r.result)

\* parse_charset_spec as a function of its argument: what a call returns.
parse_charset_spec(s) ==
    LET e == ParseEntry(s)
    IN  IF e.ret.tag /= "None" THEN e.ret
        ELSE LET l == ParseLoop(s, e.pos, e.state, e.result)
             IN  IF l.ret.tag /= "None" THEN l.ret
                 ELSE ParseFinish(l.state, e.invert, l.result).ret

\* The statements before the loop.
ParseBegin ==
    /\ pc = "parse_entry"
    /\ LET e == ParseEntry(spec_bytes)
       IN  /\ invert' = e.invert
           /\ pos' = e.pos
           /\ state' = e.state
           /\ result' = e.result
           /\ parse_ret' = e.ret
           /\ pc' = IF e.ret.tag = "None" THEN "parse_loop" ELSE "parse_ret"
    /\ UNCHANGED <<spec_bytes, genVars, runVars, callVars>>

\* One iteration of the loop over the bytes.
ParseByte ==
    /\ pc = "parse_loop"
    /\ pos <= Len(spec_bytes)
    /\ LET r == ParseStep(state, result, spec_bytes[pos])
       IN  /\ state' = r.state
           /\ result' = r.result
           /\ parse_ret' = r.ret
           /\ pc' = IF r.ret.tag = "None" THEN "parse_loop" ELSE "parse_ret"
    /\ pos' = pos + 1
    /\ UNCHANGED <<spec_bytes, invert, genVars, runVars, callVars>>

\* The match on the state once the bytes are exhausted.
ParseEnd ==
    /\ pc = "parse_loop"
    /\ pos > Len(spec_bytes)
    /\ LET f == ParseFinish(state, invert, result)
       IN  /\ result' = f.result
           /\ parse_ret' = f.ret
    /\ pc' = "parse_ret"
    /\ UNCHANGED <<spec_bytes, pos, invert, state, genVars, runVars, callVars>>

----------------------------------------------------------------------------
(* BigUint: normalised little-endian sequences of base-256 limbs. *)

RECURSIVE Normalize(_)
\* Drop the most significant zero limbs; zero is the empty sequence.
Normalize(l) ==
    IF l = <<>> THEN <<>>
    ELSE IF l[Len(l)] = 0 THEN Normalize(SubSeq(l, 1, Len(l) - 1))
    ELSE l

\* BigUint::from_bytes_le.
FromBytesLe(bytes) == Normalize(bytes)

RECURSIVE MulCarry(_, _, _, _)
MulCarry(l, i, m, carry) ==
    IF i > Len(l)
    THEN IF carry = 0 THEN <<>>
         ELSE <<carry % 256>> \o MulCarry(l, i, m, carry \div 256)
    ELSE LET t == l[i] * m + carry
         IN  <<t % 256>> \o MulCarry(l, i + 1, m, t \div 256)

\* A BigUint times a small number.
MulSmall(l, m) == Normalize(MulCarry(l, 1, m, 0))

RECURSIVE PowFrom(_, _, _)
\* acc * b^e (zero stays zero).
PowFrom(acc, b, e) ==
    IF e = 0 \/ acc = <<>> THEN acc ELSE PowFrom(MulSmall(acc, b), b, e - 1)

\* BigUint::from(b).pow(e).
BigPow(b, e) == PowFrom(<<1>>, b, e)

RECURSIVE BitLen(_)
\* Number of significant bits of a limb.
BitLen(n) == IF n = 0 THEN 0 ELSE 1 + BitLen(n \div 2)

\* BigUint::bits: the fewest bits that represent the number, 0 for zero.
Bits(l) == IF l = <<>> THEN 0 ELSE 8 * (Len(l) - 1) + BitLen(l[Len(l)])

RECURSIVE DivDigits(_, _, _, _)
\* Long division of limbs i..1 by d, the remainder rem carried in from the
\* limbs above: the quotient's limbs, most significant first, then the final
\* remainder.
DivDigits(l, i, d, rem) ==
    IF i = 0 THEN <<rem>>
    ELSE LET cur == rem * 256 + l[i]
         IN  <<cur \div d>> \o DivDigits(l, i - 1, d, cur % d)

\* A division that yields the remainder and leaves the dividend in place.
DivModKeepValue(l, d) ==
    [quo |-> l, rem |-> DivDigits(l, Len(l), d, 0)[Len(l) + 1]]

\* Integer::div_mod_floor of a BigUint by a small non-zero number.
DivModFloor(l, d) ==
    LET n == Len(l)
        r == DivDigits(l, n, d, 0)
    IN  [quo |-> Normalize([k \in 1 .. n |-> r[n + 1 - k]]), rem |-> r[n + 1]]

----------------------------------------------------------------------------
(* generate. *)

\* The None arm of the match on charset_spec: every typeable byte.
DefaultCharset == IterOnes(BitArrayFrom(TYPEABLE))

\* The charset of generate: the parsed specification, or every typeable byte.
GenCharset(spec_opt) ==
    IF spec_opt = <<>> THEN Ok(DefaultCharset)
    ELSE parse_charset_spec(spec_opt[1])

\* let num_bits = BigUint::from(base).pow(total_chars as u32).bits();
NumBits(base, total_chars) == Bits(BigPow(base, total_chars))

\* A byte count without the byte of margin.
NumBytesNoMargin(base, total_chars) == NumBits(base, total_chars) \div 8

\* A byte count rounded up to whole bytes.
NumBytesCeil(base, total_chars) == (NumBits(base, total_chars) + 7) \div 8

\* let num_bytes = (num_bits / 8) + 1;
NumBytes(base, total_chars) == (NumBits(base, total_chars) \div 8) + 1

\* Multipliers of the sampled entropy buffers.
EntropySeeds == {37, 101, 173}

\* What OsRng.fill_bytes may leave in a buffer of nb bytes: every buffer of one
\* byte; of the longer ones all zeros, all ones, and a few mixed ones.
EntropyBuffers(nb) ==
    IF nb = 1 THEN [1 .. 1 -> Byte]
    ELSE { [i \in 1 .. nb |-> b] : b \in {0, 255} }
         \cup { [i \in 1 .. nb |-> (s * i) % 256] : s \in EntropySeeds }

\* String::from_utf8(password_bytes).unwrap(), on bytes that are all ASCII or
\* not (a byte of 0x80 or more here is never valid UTF-8 on its own).
FromUtf8(bytes) ==
    IF \E i \in 1 .. Len(bytes) : bytes[i] >= 128
    THEN Panic("called Result::unwrap on an Err value")
    ELSE Ok(bytes)

\* A lookup in the table of all typeable bytes instead of the charset.
CharAtTypeable(cs, idx) == 32 + idx

\* charset[idx].
CharAt(cs, idx) == cs[idx + 1]

\* An exit test that is met one password late.
ExitTestLate(n, num) == n = num + 1

\* An exit test that is met by any count of at least num_passwords.
ExitTestAtLeast(n, num) == n >= num

\* if passwords.len() == num_passwords { break; }
ExitTest(n, num) == n = num

\* The match on charset_spec.
GenBegin ==
    /\ pc = "gen_entry"
    /\ LET r == GenCharset(charset_spec)
       IN  IF r.tag = "Ok"
           THEN /\ charset' = r.val
                /\ pc' = "gen_fill"
                /\ UNCHANGED gen_ret
           ELSE /\ gen_ret' = r
                /\ pc' = "gen_ret"
                /\ UNCHANGED charset
    /\ UNCHANGED <<num_bytes, buffer, value, password_bytes, passwords, steps,
                   parseVars, runVars, callVars>>

\* The block that sizes the buffer, fills it and builds value.
GenFill ==
    /\ pc = "gen_fill"
    /\ num_bytes' = NumBytes(Len(charset), password_len * num_passwords)
    /\ \E b \in EntropyBuffers(num_bytes') :
          /\ buffer' = b
          /\ value' = FromBytesLe(b)
    /\ passwords' = <<>>
    /\ password_bytes' = <<>>
    /\ pc' = "gen_loop"
    /\ UNCHANGED <<charset, steps, gen_ret, parseVars, runVars, callVars>>

\* One iteration of the inner for loop.
GenDigit ==
    /\ pc = "gen_loop"
    /\ Len(password_bytes) < password_len
    /\ LET dm == DivModFloor(value, Len(charset))
       IN  /\ value' = dm.quo
           /\ password_bytes' = Append(password_bytes, CharAt(charset, dm.rem))
    /\ steps' = steps + 1
    /\ UNCHANGED <<pc, charset, num_bytes, buffer, passwords, gen_ret,
                   parseVars, runVars, callVars>>

\* The end of one iteration of the outer loop: push, then the exit test.
GenPush ==
    /\ pc = "gen_loop"
    /\ Len(password_bytes) >= password_len
    /\ Len(passwords) < MaxPushes
    /\ LET string == FromUtf8(password_bytes)
       IN  IF string.tag /= "Ok"
           THEN /\ gen_ret' = string
                /\ pc' = "gen_ret"
                /\ UNCHANGED <<passwords, password_bytes>>
           ELSE /\ passwords' = Append(passwords, string.val)
                /\ IF ExitTest(Len(passwords'), num_passwords)
                   THEN /\ gen_ret' = Ok(passwords')
                        /\ pc' = "gen_ret"
                        /\ UNCHANGED password_bytes
                   ELSE /\ password_bytes' = <<>>
                        /\ UNCHANGED <<pc, gen_ret>>
    /\ UNCHANGED <<charset, num_bytes, buffer, value, steps,
                   parseVars, runVars, callVars>>

----------------------------------------------------------------------------
(* run (main.rs). *)

DEFAULT_PASSWORD_LEN  == 24
DEFAULT_NUM_PASSWORDS == 1

\* "-c", "-l", "-n" as bytes.
OptC == <<45, 99>>
OptL == <<45, 108>>
OptN == <<45, 110>>

RECURSIVE DecValue(_, _, _)
DecValue(s, i, acc) ==
    IF i > Len(s) THEN acc ELSE DecValue(s, i + 1, 10 * acc + (s[i] - 48))

\* str::parse::<usize>: an optional '+', then one or more decimal digits. (The
\* overflow error needs more digits than the arguments explored here have.)
ParseUsize(s) ==
    LET body == IF Len(s) > 0 /\ s[1] = 43 THEN Tail(s) ELSE s
    IN  IF Len(s) = 0 THEN Err("cannot parse integer from empty string", 0)
        ELSE IF Len(body) = 0 \/ \E i \in 1 .. Len(body) : body[i] \notin 48 .. 57
        THEN Err("invalid digit found in string", 0)
        ELSE Ok(DecValue(body, 1, 0))

\* A zero test that rejects nothing.
RejectNothing(n) == FALSE

\* The zero test after each parse: whether the value is rejected.
RejectZero(n) == n = 0

\* The locals of run before its loop, the program name skipped.
RunBegin ==
    /\ pc = "run_entry"
    /\ argi' = argi + 1
    /\ charset_spec' = <<>>
    /\ password_len' = DEFAULT_PASSWORD_LEN
    /\ num_passwords' = DEFAULT_NUM_PASSWORDS
    /\ pc' = "run_loop"
    /\ UNCHANGED <<args, run_ret, printed, parseVars, genVars>>

\* One iteration of the loop: two items of the iterator, then the match.
RunOption ==
    /\ pc = "run_loop"
    /\ argi' = argi + 2
    /\ LET has1 == argi <= Len(args)
           has2 == argi + 1 <= Len(args)
           key  == args[argi]
           val  == args[argi + 1]
       IN  CASE has1 /\ has2 /\ key = OptC ->
                   /\ charset_spec' = <<val>>
                   /\ UNCHANGED <<pc, password_len, num_passwords, run_ret>>
             [] has1 /\ has2 /\ key = OptL ->
                   LET n == ParseUsize(val)
                   IN  IF n.tag /= "Ok"
                       THEN /\ run_ret' = n
                            /\ pc' = "run_ret"
                            /\ UNCHANGED <<charset_spec, password_len, num_passwords>>
                       ELSE /\ password_len' = n.val
                            /\ IF RejectZero(n.val)
                               THEN /\ run_ret' = Err("password length must not be zero", 0)
                                    /\ pc' = "run_ret"
                               ELSE UNCHANGED <<pc, run_ret>>
                            /\ UNCHANGED <<charset_spec, num_passwords>>
             [] has1 /\ has2 /\ key = OptN ->
                   LET n == ParseUsize(val)
                   IN  IF n.tag /= "Ok"
                       THEN /\ run_ret' = n
                            /\ pc' = "run_ret"
                            /\ UNCHANGED <<charset_spec, password_len, num_passwords>>
                       ELSE /\ num_passwords' = n.val
                            /\ IF RejectZero(n.val)
                               THEN /\ run_ret' = Err("number of passwords must not be zero", 0)
                                    /\ pc' = "run_ret"
                               ELSE UNCHANGED <<pc, run_ret>>
                            /\ UNCHANGED <<charset_spec, password_len>>
             [] has1 /\ ~(has2 /\ key \in {OptC, OptL, OptN}) ->
                   /\ run_ret' = Err("usage", 0)
                   /\ pc' = "run_ret"
                   /\ UNCHANGED <<charset_spec, password_len, num_passwords>>
             [] ~has1 ->
                   /\ pc' = "gen_entry"
                   /\ UNCHANGED <<charset_spec, password_len, num_passwords, run_ret>>
    /\ UNCHANGED <<args, printed, parseVars, genVars>>

\* generate(...)? and the loop that prints the passwords.
RunFinish ==
    /\ pc = "gen_ret"
    /\ IF gen_ret.tag = "Ok"
       THEN /\ printed' = gen_ret.val
            /\ run_ret' = Ok(<<>>)
       ELSE /\ run_ret' = gen_ret
            /\ UNCHANGED printed
    /\ pc' = "run_ret"
    /\ UNCHANGED <<args, argi, parseVars, genVars, callVars>>

----------------------------------------------------------------------------
(* The specifications. *)

\* The sequences over S of length at most n.
SeqsUpTo(S, n) == UNION { [1 .. k -> S] : k \in 0 .. n }

\* The bytes the explored specification strings are made of: a control
\* character, the ends of the typeable set, the three special bytes, three
\* letters, DEL and a byte of a multi-byte UTF-8 character.
SpecAlphabet == {10, 32, HYPHEN, BACKSLASH, CARET, 97, 98, 120, 126, 127, 195}

\* The bytes of the specification strings explored with generate.
GenAlphabet == {HYPHEN, CARET, 97, 99}

\* The command-line arguments explored: the options, "0", "2", "+1", "a", "".
ArgTokens == {OptC, OptL, OptN, <<48>>, <<50>>, <<43, 49>>, <<97>>, <<>>}

ParseIdle ==
    /\ spec_bytes = <<>>
    /\ pos = 1
    /\ invert = FALSE
    /\ state = Start
    /\ result = {}
    /\ parse_ret = NoRet

GenIdle ==
    /\ charset = <<>>
    /\ num_bytes = 0
    /\ buffer = <<>>
    /\ value = <<>>
    /\ password_bytes = <<>>
    /\ passwords = <<>>
    /\ steps = 0
    /\ gen_ret = NoRet

RunIdle ==
    /\ args = <<>>
    /\ argi = 1
    /\ run_ret = NoRet
    /\ printed = <<>>

CallIdle ==
    /\ charset_spec = <<>>
    /\ password_len = 0
    /\ num_passwords = 0

\* The program: run, and generate as run calls it.
Init ==
    /\ pc = "run_entry"
    /\ args \in { <<<<112>>>> \o a : a \in SeqsUpTo(ArgTokens, MaxArgs) }
    /\ argi = 1
    /\ run_ret = NoRet
    /\ printed = <<>>
    /\ CallIdle
    /\ ParseIdle
    /\ GenIdle

Next == RunBegin \/ RunOption \/ GenBegin \/ GenFill \/ GenDigit \/ GenPush \/ RunFinish

Spec == Init /\ [][Next]_vars

\* generate, called with any explored specification and sizes.
InitGen ==
    /\ pc = "gen_entry"
    /\ charset_spec \in {<<>>} \cup { <<s>> : s \in SeqsUpTo(GenAlphabet, MaxGenSpecLen) }
    /\ password_len \in 1 .. MaxPasswordLen
    /\ num_passwords \in 1 .. MaxNumPasswords
    /\ RunIdle
    /\ ParseIdle
    /\ GenIdle

NextGen == GenBegin \/ GenFill \/ GenDigit \/ GenPush

SpecGen == InitGen /\ [][NextGen]_vars

\* parse_charset_spec, called with any explored specification.
InitParse ==
    /\ pc = "parse_entry"
    /\ spec_bytes \in SeqsUpTo(SpecAlphabet, MaxSpecLen)
    /\ pos = 1
    /\ invert = FALSE
    /\ state = Start
    /\ result = {}
    /\ parse_ret = NoRet
    /\ RunIdle
    /\ CallIdle
    /\ GenIdle

NextParse == ParseBegin \/ ParseByte \/ ParseEnd

SpecParse == InitParse /\ [][NextParse]_vars

\* The first and last typeable bytes (the set bits of TYPEABLE).
FirstTypeable == 32
LastTypeable  == 126

\* A range endpoint as it is written: hyphen and backslash escaped.
Item(c) == IF c \in {HYPHEN, BACKSLASH} THEN <<BACKSLASH, c>> ELSE <<c>>

\* The single range item a-b.
RangeItem(a, b) == Item(a) \o <<HYPHEN>> \o Item(b)

\* parse_charset_spec, called with a single range item of any two typeable
\* endpoints.
InitRange ==
    /\ pc = "parse_entry"
    /\ spec_bytes \in { RangeItem(a, b) :
                             a \in FirstTypeable .. LastTypeable,
                             b \in FirstTypeable .. LastTypeable }
    /\ pos = 1
    /\ invert = FALSE
    /\ state = Start
    /\ result = {}
    /\ parse_ret = NoRet
    /\ RunIdle
    /\ CallIdle
    /\ GenIdle

SpecRange == InitRange /\ [][NextParse]_vars

\* generate, called with a charset of every size from 1 to 95: the
\* specification is the range from the first typeable byte to the b-th.
InitSize ==
    /\ pc = "gen_entry"
    /\ charset_spec \in { << RangeItem(FirstTypeable, FirstTypeable + b - 1) >> :
                              b \in 1 .. (LastTypeable - FirstTypeable + 1) }
    /\ password_len \in 1 .. MaxSizeLen
    /\ num_passwords \in 1 .. MaxSizeNum
    /\ ParseIdle
    /\ RunIdle
    /\ GenIdle

SpecSize == InitSize /\ [][NextGen]_vars

\* generate, called directly with num_passwords = 0.
InitZero ==
    /\ pc = "gen_entry"
    /\ charset_spec \in {<<>>} \cup { <<s>> : s \in SeqsUpTo(GenAlphabet, MaxGenSpecLen) }
    /\ password_len \in 1 .. MaxPasswordLen
    /\ num_passwords = 0
    /\ RunIdle
    /\ ParseIdle
    /\ GenIdle

SpecZero == InitZero /\ [][NextGen]_vars

----------------------------------------------------------------------------
(* Properties. *)

\* The bytes of a sequence.
Elems(sq) == { sq[i] : i \in 1 .. Len(sq) }

\* The bytes lo, lo + 1, ..., hi in order.
Ascending(lo, hi) == [i \in 1 .. (hi - lo + 1) |-> lo + i - 1]

\* The typeable set as the specification states it: 0x20 to 0x7E.
TypeableBytes == FirstTypeable .. LastTypeable

\* A charset of the shape the specification requires: non-empty, typeable
\* bytes only, strictly ascending (hence without duplicates).
WellFormedCharset(cs) ==
    /\ Len(cs) >= 1
    /\ \A i \in 1 .. Len(cs) : cs[i] \in TypeableBytes
    /\ \A i \in 1 .. (Len(cs) - 1) : cs[i] < cs[i + 1]

\* parse_charset_spec has ended (returned or panicked).
ParseDone == pc = "parse_ret"

\* The endpoints of the range item in spec_bytes (SpecRange).
RangeFrom == IF spec_bytes[1] = BACKSLASH THEN spec_bytes[2] ELSE spec_bytes[1]
RangeTo   == spec_bytes[Len(spec_bytes)]

\* C4: for typeable a <= b, a not a leading caret, parsing the single range
\* item a-b (hyphen and backslash endpoints escaped) succeeds and returns
\* exactly the bytes a, a + 1, ..., b.
C4_RangeInclusive ==
    (ParseDone /\ RangeFrom <= RangeTo /\ RangeFrom /= CARET)
        => parse_ret = Ok(Ascending(RangeFrom, RangeTo))

\* The run on "a-d" has returned [a, b, c, d].
C4_Witness ==
    /\ ParseDone
    /\ spec_bytes = <<97, HYPHEN, 100>>
    /\ parse_ret = Ok(<<97, 98, 99, 100>>)

\* What parse_charset_spec returns for '^' followed by spec_bytes.
ParseOfInverted == parse_charset_spec(<<CARET>> \o spec_bytes)

\* spec_bytes compiled on its own, and its complement is not empty.
CompiledWithComplement ==
    /\ ParseDone
    /\ parse_ret.tag = "Ok"
    /\ TypeableBytes \ Elems(parse_ret.val) /= {}

\* C5 as claimed: for every S that compiles (also one that begins with '^')
\* and whose complement is not empty, '^' followed by S compiles to exactly
\* the typeable set minus compile(S).
C5_InversionAnySpec ==
    CompiledWithComplement
        => /\ ParseOfInverted.tag = "Ok"
           /\ Elems(ParseOfInverted.val) = TypeableBytes \ Elems(parse_ret.val)

\* C5 as amended: the same for every S that compiles and does not begin with
\* '^'.
C5_InversionNoCaret ==
    (CompiledWithComplement /\ spec_bytes[1] /= CARET)
        => /\ ParseOfInverted.tag = "Ok"
           /\ Elems(ParseOfInverted.val) = TypeableBytes \ Elems(parse_ret.val)

\* "a-b" compiled to [a, b] and "^a-b" compiles to the other 93 bytes.
C5_Witness ==
    /\ CompiledWithComplement
    /\ spec_bytes = <<97, HYPHEN, 98>>
    /\ ParseOfInverted.tag = "Ok"
    /\ Len(ParseOfInverted.val) = 93

\* Index of the first byte of spec_bytes outside the typeable set, 0 if none.
FirstUntypeable ==
    LET bad == { i \in 1 .. Len(spec_bytes) : spec_bytes[i] \notin TypeableBytes }
    IN  IF bad = {} THEN 0 ELSE CHOOSE i \in bad : \A j \in bad : i <= j

\* C6 as claimed: a specification holding a byte outside 0x20-0x7E ends in
\* the untypeable-character error value (never Ok, never a panic), unless a
\* byte before it already produced another error.
C6_UntypeableIsError ==
    (ParseDone /\ FirstUntypeable /= 0)
        => \/ parse_ret = ErrUntypeable
           \/ parse_ret.tag = "Err" /\ pos - 1 < FirstUntypeable

\* C7: "", "-x", "\x", "a-" and "a\" each return an error, with five
\* pairwise different reasons.
C7_Rejections ==
    /\ (ParseDone /\ spec_bytes = <<>>) => parse_ret = ErrEmptySpec
    /\ (ParseDone /\ spec_bytes = <<HYPHEN, 120>>) => parse_ret = ErrEscapeHyphen
    /\ (ParseDone /\ spec_bytes = <<BACKSLASH, 120>>)
           => parse_ret = ErrInvalidEscape(120)
    /\ (ParseDone /\ spec_bytes = <<97, HYPHEN>>) => parse_ret = ErrUntermRange
    /\ (ParseDone /\ spec_bytes = <<97, BACKSLASH>>) => parse_ret = ErrUntermEscape
    /\ Cardinality({ ErrEmptySpec.msg, ErrEscapeHyphen.msg, ErrInvalidEscape(120).msg,
                     ErrUntermRange.msg, ErrUntermEscape.msg }) = 5
    /\ \A e \in { ErrEmptySpec, ErrEscapeHyphen, ErrInvalidEscape(120),
                  ErrUntermRange, ErrUntermEscape } : e.tag = "Err"

\* The run on "a-" has returned the unterminated-range error.
C7_Witness ==
    /\ ParseDone
    /\ spec_bytes = <<97, HYPHEN>>
    /\ parse_ret = ErrUntermRange

\* C8: every charset a successful parse returns is non-empty, typeable,
\* duplicate-free and strictly ascending, whatever the order or repetition of
\* the items ("ba", "ab" and "aab" all give [a, b]); the default charset of
\* generate is exactly the 95 bytes 0x20..0x7E.
C8_CharsetShape ==
    /\ (ParseDone /\ parse_ret.tag = "Ok") => WellFormedCharset(parse_ret.val)
    /\ (ParseDone /\ spec_bytes \in { <<98, 97>>, <<97, 98>>, <<97, 97, 98>> })
           => parse_ret = Ok(<<97, 98>>)
    /\ GenCharset(<<>>) = Ok(DefaultCharset)
    /\ DefaultCharset = Ascending(32, 126)
    /\ Len(DefaultCharset) = 95
    /\ WellFormedCharset(DefaultCharset)

\* The run on "ba" has returned [a, b].
C8_Witness ==
    /\ ParseDone
    /\ spec_bytes = <<98, 97>>
    /\ parse_ret = Ok(<<97, 98>>)

\* The items of spec_bytes after a leading caret, as the loop leaves them.
ItemsAfterCaret == ParseLoop(spec_bytes, 2, Start, {})

\* spec_bytes has the leading inversion marker, its items are well formed and
\* they mark all 95 typeable bytes.
InvertsEverything ==
    /\ Len(spec_bytes) >= 1
    /\ spec_bytes[1] = CARET
    /\ ItemsAfterCaret.ret = NoRet
    /\ ItemsAfterCaret.state.tag \in {"Start", "Char"}
    /\ ItemsAfterCaret.result = TypeableBytes

\* C9: the result is "character set is empty" exactly when the specification
\* has the leading inversion marker and its items mark all 95 typeable bytes;
\* without the marker this error never occurs.
C9_EmptyOnlyByInversion ==
    ParseDone => ((parse_ret = ErrEmptyCharset) <=> InvertsEverything)

\* The run on "^ -~" has returned the empty-charset error.
C9_Witness ==
    /\ ParseDone
    /\ spec_bytes = <<CARET, 32, HYPHEN, 126>>
    /\ parse_ret = ErrEmptyCharset

\* generate has ended.
GenDone == pc = "gen_ret"

\* The call's charset_spec is None or a specification that compiles.
CharsetValid ==
    \/ charset_spec = <<>>
    \/ parse_charset_spec(charset_spec[1]).tag = "Ok"

\* The charset C of the call: the typeable set, or the compiled specification.
CharsetOfCall ==
    IF charset_spec = <<>> THEN TypeableBytes
    ELSE Elems(parse_charset_spec(charset_spec[1]).val)

\* C1: with a valid charset C, password_len >= 1 and num_passwords >= 1,
\* generate returns exactly num_passwords strings of exactly password_len
\* bytes, every byte a member of C.
C1_OutputShape ==
    (GenDone /\ CharsetValid /\ password_len >= 1 /\ num_passwords >= 1)
        => /\ gen_ret.tag = "Ok"
           /\ Len(gen_ret.val) = num_passwords
           /\ \A i \in 1 .. Len(gen_ret.val) :
                 /\ Len(gen_ret.val[i]) = password_len
                 /\ Elems(gen_ret.val[i]) \subseteq CharsetOfCall

\* generate("ac", 2, 2) has returned two passwords, the first using both
\* characters.
C1_Witness ==
    /\ GenDone
    /\ charset_spec = << <<97, 99>> >>
    /\ password_len = 2
    /\ num_passwords = 2
    /\ gen_ret.tag = "Ok"
    /\ Len(gen_ret.val) = 2
    /\ Elems(gen_ret.val[1]) = {97, 99}

RECURSIVE IntPow(_, _)
IntPow(b, e) == IF e = 0 THEN 1 ELSE b * IntPow(b, e - 1)

\* The index of the first character generate extracts from an entropy buffer.
FirstIndex(buf, base) == DivModFloor(FromBytesLe(buf), base).rem

\* Of all buffers of nb bytes, how many yield the charset character of index r
\* as the first character.
BuffersYielding(nb, base, r) ==
    Cardinality({ buf \in [1 .. nb -> Byte] : FirstIndex(buf, base) = r })

\* C2 as claimed: for password_len = 1 and num_passwords = 1, with all
\* 256^num_bytes buffers equally likely, the fraction of buffers yielding each
\* character differs from 1/|charset| by a relative error of at most 1/256:
\* 256 * |count * base - 256^num_bytes| <= 256^num_bytes.
C2_NoModuloBias ==
    (pc = "gen_loop" /\ password_len = 1 /\ num_passwords = 1)
        => \A r \in 0 .. (Len(charset) - 1) :
              LET total == IntPow(256, num_bytes)
                  diff  == BuffersYielding(num_bytes, Len(charset), r) * Len(charset)
                               - total
              IN  256 * (IF diff < 0 THEN -diff ELSE diff) <= total

\* C3 as claimed: the buffer has one byte of headroom,
\* 256^num_bytes >= 256 * base^total_chars, that is, base^total_chars is at
\* most 256^(num_bytes - 1): it has fewer than num_bytes limbs or equals
\* 256^(num_bytes - 1).
C3_OneByteHeadroom ==
    (pc = "gen_loop" /\ password_len >= 1 /\ num_passwords >= 1)
        => LET p == BigPow(Len(charset), password_len * num_passwords)
           IN  \/ Len(p) < num_bytes
               \/ p = BigPow(256, num_bytes - 1)

\* The key positions of the options in args: 2, 4, ...
KeyPositions == { i \in 2 .. Len(args) : i % 2 = 0 }

\* args holds "-l 0" or "-n 0".
HasZeroOption ==
    \E i \in 2 .. (Len(args) - 1) :
        args[i] \in {OptL, OptN} /\ args[i + 1] = <<48>>

\* generate has been called (and may have returned).
GenerateCalled == pc \in {"gen_entry", "gen_fill", "gen_loop", "gen_ret"}
                      \/ gen_ret /= NoRet \/ charset /= <<>>

\* C10: run never calls generate with password_len = 0 or num_passwords = 0:
\* "-l 0" or "-n 0" gives an error before generate is called, and without the
\* options the values passed are the defaults 24 and 1.
C10_CallerRejectsZero ==
    /\ GenerateCalled => (password_len /= 0 /\ num_passwords /= 0)
    /\ HasZeroOption => ~GenerateCalled
    /\ (HasZeroOption /\ pc = "run_ret") => run_ret.tag = "Err"
    /\ (pc = "gen_entry" /\ \A i \in KeyPositions : args[i] /= OptL)
           => password_len = 24
    /\ (pc = "gen_entry" /\ \A i \in KeyPositions : args[i] /= OptN)
           => num_passwords = 1

\* run calls generate with the default length and the count of "-n 2".
C10_Witness ==
    /\ pc = "gen_entry"
    /\ args = << <<112>>, OptN, <<50>> >>
    /\ password_len = 24
    /\ num_passwords = 2

\* run has ended with the zero-length error of "-l 0", generate not called.
C10_WitnessZero ==
    /\ pc = "run_ret"
    /\ args = << <<112>>, OptL, <<48>> >>
    /\ run_ret = Err("password length must not be zero", 0)
    /\ ~GenerateCalled

\* The work generate still has ahead of it: the divide-and-extract steps and
\* the pushes that remain, and the statements before the loop.
WorkLeft ==
    CASE pc = "gen_entry" -> password_len * num_passwords + num_passwords + 2
      [] pc = "gen_fill"  -> password_len * num_passwords + num_passwords + 1
      [] pc = "gen_loop"  -> (password_len * num_passwords - steps)
                               + (num_passwords - Len(passwords))
      [] OTHER            -> 0

\* C11: for every charset, password_len >= 1 and num_passwords >= 1,
\* generate terminates: until it has returned it can always take a step,
\* every step takes one unit off a non-negative amount of remaining work, and
\* when it returns a batch it has performed exactly
\* password_len * num_passwords divide-and-extract steps and its exit test is
\* met.
C11_Terminates ==
    /\ [](WorkLeft >= 0)
    /\ [](pc = "gen_entry" => GenCharset(charset_spec).tag \in {"Ok", "Err"})
    /\ [](pc = "gen_fill"
            => EntropyBuffers(NumBytes(Len(charset),
                                       password_len * num_passwords)) # {})
    /\ [](pc = "gen_loop" => ENABLED (GenDigit \/ GenPush))
    /\ [][WorkLeft' < WorkLeft]_vars
    /\ [](  (GenDone /\ CharsetValid)
              => /\ gen_ret.tag = "Ok"
                 /\ steps = password_len * num_passwords
                 /\ Len(passwords) = num_passwords )

\* generate(None, 2, 2) has returned after four steps.
C11_Witness ==
    /\ GenDone
    /\ charset_spec = <<>>
    /\ password_len = 2
    /\ num_passwords = 2
    /\ gen_ret.tag = "Ok"
    /\ steps = 4

\* A byte that is an item on its own: typeable, not a hyphen or a backslash.
IsLiteral(b) == b \in TypeableBytes \ {HYPHEN, BACKSLASH}

\* spec_bytes is a literal (not the inversion marker) followed by a range
\* between two literals, first endpoint not above the second: "xa-c".
LiteralThenRange ==
    /\ Len(spec_bytes) = 4
    /\ IsLiteral(spec_bytes[1]) /\ spec_bytes[1] /= CARET
    /\ IsLiteral(spec_bytes[2])
    /\ spec_bytes[3] = HYPHEN
    /\ IsLiteral(spec_bytes[4])
    /\ spec_bytes[2] <= spec_bytes[4]

\* C12: in state Char(p) a literal byte b is marked and the state becomes
\* Char(b), so a literal x followed by the range a-c (a <= c) compiles to
\* exactly {x} \cup {a, ..., c}, however x compares to a and c.
C12_RangeAfterLiteral ==
    /\ (  /\ pc = "parse_loop" /\ pos = 3
          /\ IsLiteral(spec_bytes[1]) /\ spec_bytes[1] /= CARET
          /\ IsLiteral(spec_bytes[2]) )
         => state = Char(spec_bytes[2])
    /\ (ParseDone /\ LiteralThenRange)
         => /\ parse_ret.tag = "Ok"
            /\ Elems(parse_ret.val)
                 = {spec_bytes[1]} \cup (spec_bytes[2] .. spec_bytes[4])

RECURSIVE AddCarry(_, _, _)
AddCarry(l, i, carry) ==
    IF i > Len(l)
    THEN IF carry = 0 THEN <<>> ELSE <<carry>>
    ELSE LET t == l[i] + carry
         IN  <<t % 256>> \o AddCarry(l, i + 1, t \div 256)

\* A BigUint plus a small number (below 256).
AddSmall(l, a) == AddCarry(l, 1, a)

RECURSIVE Flatten(_)
\* The strings of a batch one after the other.
Flatten(strs) == IF strs = <<>> THEN <<>> ELSE Head(strs) \o Flatten(Tail(strs))

\* The 0-based index of byte ch in the charset cs.
IndexIn(cs, ch) == CHOOSE i \in 0 .. (Len(cs) - 1) : cs[i + 1] = ch

RECURSIVE Compose(_, _, _, _)
\* acc * base^k + ds[1] + ds[2] * base + ... + ds[k] * base^(k-1).
Compose(acc, ds, base, k) ==
    IF k = 0 THEN acc
    ELSE Compose(AddSmall(MulSmall(acc, base), ds[k]), ds, base, k - 1)

\* The little-endian integer of a buffer of at most three bytes.
SmallValue(buf) ==
    (IF Len(buf) >= 1 THEN buf[1] ELSE 0)
      + (IF Len(buf) >= 2 THEN buf[2] * 256 ELSE 0)
      + (IF Len(buf) >= 3 THEN buf[3] * 65536 ELSE 0)

\* C13: with value the little-endian integer of the entropy bytes and
\* base = |charset|, character j of password i (0-based, k = i * password_len
\* + j) is charset[(value div base^k) mod base].  The indices of the returned
\* characters are digits below base that, with the quotient left over, put
\* value together again (so they are its base-|charset| digits from the least
\* significant one); for buffers of up to three bytes each digit is also
\* computed directly.
C13_BaseDigits ==
    (GenDone /\ gen_ret.tag = "Ok")
        => LET base  == Len(charset)
               total == password_len * num_passwords
               flat  == Flatten(gen_ret.val)
           IN  /\ Len(flat) = total
               /\ \A i \in 0 .. (num_passwords - 1), j \in 0 .. (password_len - 1) :
                     gen_ret.val[i + 1][j + 1] = flat[i * password_len + j + 1]
               /\ Elems(flat) \subseteq Elems(charset)
               /\ LET ds == [k \in 1 .. total |-> IndexIn(charset, flat[k])]
                  IN  /\ Compose(value, ds, base, total) = FromBytesLe(buffer)
                      /\ Len(buffer) <= 3
                           => \A k \in 0 .. (total - 1) :
                                 ds[k + 1] = (SmallValue(buffer) \div IntPow(base, k))
                                                % base

\* generate("ac", 2, 2) on the entropy byte 6 (binary 0110) has returned
\* "ac" and "ca".
C13_Witness ==
    /\ GenDone
    /\ charset_spec = << <<97, 99>> >>
    /\ password_len = 2
    /\ num_passwords = 2
    /\ buffer = <<6>>
    /\ gen_ret = Ok(<< <<97, 99>>, <<99, 97>> >>)

RECURSIVE LessFrom(_, _, _)
\* Of two BigUints of equal length, a is below b on the limbs i..1.
LessFrom(a, b, i) ==
    /\ i >= 1
    /\ \/ a[i] < b[i]
       \/ a[i] = b[i] /\ LessFrom(a, b, i - 1)

\* a < b and a <= b on BigUints.
BigLess(a, b) == Len(a) < Len(b) \/ (Len(a) = Len(b) /\ LessFrom(a, b, Len(a)))
BigLeq(a, b) == a = b \/ BigLess(a, b)

\* 2^n as a BigUint.
BigPow2(n) == [i \in 1 .. (n \div 8 + 1) |-> IF i = n \div 8 + 1 THEN Pow2(n % 8) ELSE 0]

\* generate has just drawn its entropy.
JustFilled == pc = "gen_loop" /\ steps = 0 /\ passwords = <<>>

\* base^total_chars of the call.
Outcomes == BigPow(Len(charset), password_len * num_passwords)

\* The bit counts b with floor(b / 8) + 1 = num_bytes.
BitsOfNumBytes == (8 * (num_bytes - 1)) .. (8 * num_bytes - 1)

\* C14 as claimed: num_bytes = floor(bits / 8) + 1 with bits the fewest bits
\* that represent base^total_chars - 1, that is ceil(log2(base^total_chars)):
\* 2^(bits - 1) < base^total_chars <= 2^bits (bits = 0 when the power is 1).
C14_BitsOfPredecessor ==
    JustFilled
        => /\ Len(buffer) = num_bytes
           /\ \E bits \in BitsOfNumBytes :
                 \/ bits = 0 /\ Outcomes = <<1>>
                 \/ /\ bits >= 1
                    /\ BigLess(BigPow2(bits - 1), Outcomes)
                    /\ BigLeq(Outcomes, BigPow2(bits))

\* C14: for base in 1..95 and total_chars >= 1 the number of entropy bytes is
\* floor(bits / 8) + 1 with bits the fewest bits that represent
\* base^total_chars itself, floor(log2(base^total_chars)) + 1:
\* 2^(bits - 1) <= base^total_chars < 2^bits.
C14_BitsOfPower ==
    JustFilled
        => /\ Len(buffer) = num_bytes
           /\ \E bits \in BitsOfNumBytes :
                 /\ bits >= 1
                 /\ BigLeq(BigPow2(bits - 1), Outcomes)
                 /\ BigLess(Outcomes, BigPow2(bits))

\* The charset of two characters and seven characters to produce: 2^7 has
\* eight bits, and two bytes are drawn.
C14_Witness ==
    /\ JustFilled
    /\ Len(charset) = 2
    /\ password_len * num_passwords = 7
    /\ Len(buffer) = 2

RECURSIVE ExtractFrom(_, _, _)
\* The remainders of n successive divisions of v by base, as the loop of
\* generate takes them.
ExtractFrom(v, base, n) ==
    IF n = 0 THEN <<>>
    ELSE LET dm == DivModFloor(v, base)
         IN  <<dm.rem>> \o ExtractFrom(dm.quo, base, n - 1)

\* Sequences of n charset indices: all of them when there are few, else the
\* constant ones, the ascending and the descending one.
IndexSeqs(base, n) ==
    IF n = 1 \/ (base <= 2 /\ n <= 6) THEN [1 .. n -> 0 .. (base - 1)]
    ELSE { [k \in 1 .. n |-> 0], [k \in 1 .. n |-> base - 1],
           [k \in 1 .. n |-> k % base], [k \in 1 .. n |-> (base - 1) - (k % base)] }

\* Some buffer of nb bytes makes generate extract the indices ds: the
\* little-endian bytes of the number with the base-|charset| digits ds.
SomeBufferYields(ds, base, nb) ==
    LET v   == Compose(<<>>, ds, base, Len(ds))
        buf == [i \in 1 .. nb |-> IF i <= Len(v) THEN v[i] ELSE 0]
    IN  /\ Len(v) <= nb
        /\ FromBytesLe(buf) = v
        /\ ExtractFrom(FromBytesLe(buf), base, Len(ds)) = ds

\* C17: for base in 1..95, 256^num_bytes > base^(password_len *
\* num_passwords), so every sequence of total_chars charset characters is
\* extracted from at least one entropy value.
C17_EveryBatchPossible ==
    JustFilled
        => /\ Len(buffer) = num_bytes
           /\ BigLess(Outcomes, BigPow2(8 * num_bytes))
           /\ \A ds \in IndexSeqs(Len(charset), password_len * num_passwords) :
                 SomeBufferYields(ds, Len(charset), num_bytes)

\* The 95-character charset and seven characters to produce: 95^7 has 46
\* bits, six bytes are drawn.
C17_Witness ==
    /\ JustFilled
    /\ Len(charset) = 95
    /\ password_len * num_passwords = 7
    /\ num_bytes = 6

\* The loop over the bytes has come to its end: the next step is the match
\* on the final state.
BytesExhausted == pc = "parse_loop" /\ pos > Len(spec_bytes)

\* C15: a parse succeeds only if the state after the last byte is Start or
\* Char(_); ending in Escape or RangeEscape gives "unterminated escape
\* sequence" ("a\", "a-\"), ending in Range gives "unterminated character
\* range" ("a-"); no charset is returned in these cases.
C15_TerminalState ==
    /\ [][ BytesExhausted
             => /\ pc' = "parse_ret"
                /\ state.tag \in {"Escape", "RangeEscape"}
                     => parse_ret' = ErrUntermEscape
                /\ state.tag = "Range" => parse_ret' = ErrUntermRange
                /\ state.tag \in {"Start", "Char"}
                     => (parse_ret'.tag = "Ok" \/ parse_ret' = ErrEmptyCharset) ]_vars
    /\ []( ParseDone
             => /\ parse_ret.tag = "Ok" => state.tag \in {"Start", "Char"}
                /\ parse_ret.tag /= "Ok" => parse_ret.val = <<>>
                /\ spec_bytes = <<97, BACKSLASH>> => parse_ret = ErrUntermEscape
                /\ spec_bytes = <<97, HYPHEN, BACKSLASH>>
                     => parse_ret = ErrUntermEscape
                /\ spec_bytes = <<97, HYPHEN>> => parse_ret = ErrUntermRange )

\* The run on "a-\" has ended in RangeEscape(a) and returned the
\* unterminated-escape error.
C15_Witness ==
    /\ ParseDone
    /\ spec_bytes = <<97, HYPHEN, BACKSLASH>>
    /\ state = RangeEscape(97)
    /\ parse_ret = ErrUntermEscape

\* C16: for every typeable literal c (not a hyphen, a backslash or a leading
\* caret) parsing "c-c" succeeds and returns what parsing "c" returns, the
\* charset [c].
C16_DegenerateRange ==
    (  /\ ParseDone
       /\ Len(spec_bytes) = 3
       /\ spec_bytes[1] = spec_bytes[3]
       /\ IsLiteral(spec_bytes[1]) /\ spec_bytes[1] /= CARET )
        => /\ parse_ret = Ok(<<spec_bytes[1]>>)
           /\ parse_ret = parse_charset_spec(<<spec_bytes[1]>>)

\* The run on "a-a" has returned [a].
C16_Witness ==
    /\ ParseDone
    /\ spec_bytes = <<97, HYPHEN, 97>>
    /\ parse_ret = Ok(<<97>>)

\* C18: a range whose start is above its end ("d-a") is accepted without an
\* error and adds no byte: the end is not in the charset, and the parse
\* returns the start alone.
C18_ReversedRange ==
    (ParseDone /\ RangeFrom > RangeTo /\ RangeFrom /= CARET)
        => /\ parse_ret = Ok(<<RangeFrom>>)
           /\ RangeTo \notin Elems(parse_ret.val)

\* The run on "d-a" has returned [d].
C18_Witness ==
    /\ ParseDone
    /\ spec_bytes = <<100, HYPHEN, 97>>
    /\ parse_ret = Ok(<<100>>)

\* C19: the caret is the inversion marker only as the first byte: "^" alone
\* compiles to all 95 typeable bytes, "^^" to the typeable set without the
\* caret, "a^" to [^, a]; in a specification without ranges a caret anywhere
\* else is a byte of the accumulated set like any other.
C19_CaretOnlyFirst ==
    ParseDone
        => /\ spec_bytes /= <<>> => invert = (spec_bytes[1] = CARET)
           /\ spec_bytes = <<CARET>>
                => parse_ret = Ok(Ascending(FirstTypeable, LastTypeable))
           /\ spec_bytes = <<CARET, CARET>>
                => /\ parse_ret.tag = "Ok"
                   /\ Elems(parse_ret.val) = TypeableBytes \ {CARET}
           /\ spec_bytes = <<97, CARET>> => parse_ret = Ok(<<CARET, 97>>)
           /\ (  /\ parse_ret.tag = "Ok" /\ ~invert
                  /\ CARET \in Elems(spec_bytes) /\ HYPHEN \notin Elems(spec_bytes) )
                => CARET \in Elems(parse_ret.val)
           /\ (  /\ parse_ret.tag = "Ok" /\ invert
                  /\ CARET \in Elems(Tail(spec_bytes)) /\ HYPHEN \notin Elems(spec_bytes) )
                => CARET \notin Elems(parse_ret.val)

\* The run on "^" has returned the 95 typeable bytes.
C19_Witness ==
    /\ ParseDone
    /\ spec_bytes = <<CARET>>
    /\ parse_ret.tag = "Ok"
    /\ Len(parse_ret.val) = 95

\* The run on "a^" has returned [^, a].
C19_WitnessLiteral ==
    /\ ParseDone
    /\ spec_bytes = <<97, CARET>>
    /\ parse_ret = Ok(<<CARET, 97>>)

\* C20: generate called directly with num_passwords = 0 never returns: a
\* password is pushed before the exit test is first evaluated, so at every
\* test passwords.len() is at least 1 and differs from 0, the loop goes
\* round again, and no batch (the empty one included) is ever returned.
C20_ZeroNeverReturns ==
    /\ [](GenDone => ~CharsetValid)
    /\ [](gen_ret.tag /= "Ok")
    /\ [][ (pc = "gen_loop" /\ passwords' /= passwords)
             => /\ Len(passwords') = Len(passwords) + 1
                /\ ~ExitTest(Len(passwords'), num_passwords)
                /\ pc' = "gen_loop"
                /\ password_bytes' = <<>> ]_vars
    /\ []( (pc = "gen_loop" /\ password_bytes = <<>> /\ Len(passwords) < MaxPushes)
             => ENABLED GenDigit )

\* generate(None, 1, 0) is still in its loop with three passwords pushed.
C20_Witness ==
    /\ pc = "gen_loop"
    /\ charset_spec = <<>>
    /\ password_len = 1
    /\ num_passwords = 0
    /\ Len(passwords) = 3
    /\ steps = 3

====
